---- MODULE Spec2Model ----
(***************************************************************************)
(* Model of python_helpers/yokatlas_helper.py: the bridge process that     *)
(* detects which generation of the yokatlas_py provider is importable,     *)
(* reads one invocation from argv, dispatches it and prints one JSON       *)
(* document.  One run of the process is one behaviour of the model.        *)
(***************************************************************************)
EXTENDS Integers, Sequences, FiniteSets, TLC

VARIABLES
    importable,         \* environment: the import blocks (tiers) that would bind
    io_reliable,        \* environment: TRUE when the log file and the standard
                        \* streams never fail
    stdout_closed,      \* environment: TRUE when sys.stdout is None
    stderr_closed,      \* environment: TRUE when sys.stderr is None
    argv,               \* sys.argv
    pc,                 \* position of the process
    attempted,          \* import blocks executed so far, in order
    import_raised,      \* what each of them raised: "none" when it bound
    NEW_SMART_API,      \* module global, line 41
    YOKATLAS_AVAILABLE, \* module global, line 42
    function_name,      \* local of main, line 266
    params,             \* local of main, lines 271 / 278
    result,             \* local of main, lines 285-313
    exc,                \* message of the exception travelling to main's handler
    stdout,             \* what was printed to standard output, in order
    exit_code,          \* process exit status once pc = "exited"
    exit_site,          \* the place the process ended at
    provider_outcome,   \* what the provider did when it was called
    provider_calls,     \* provider entry points invoked, in order
    wizard_args,        \* parameter maps handed to a legacy search wizard
    log_lines,          \* entries appended to the log file by log_to_file
    stream_fault,       \* TRUE once a write to a standard stream has failed
    delivered           \* FALSE once flushing standard output has failed

vars == <<importable, io_reliable, stdout_closed, stderr_closed, argv, pc,
          attempted, import_raised, NEW_SMART_API, YOKATLAS_AVAILABLE,
          function_name, params, result, exc, stdout, exit_code, exit_site,
          provider_outcome, provider_calls, wizard_args, log_lines,
          stream_fault, delivered>>

----------------------------------------------------------------------------
(* Bounds of the model *)

\* caller-supplied integers range over -1 .. MaxInt
MaxInt == 1
\* the provider returns every list of at most MaxRows rows ...
MaxRows == 2
\* ... and lists of DefaultLength - 1 .. DefaultLength + MaxOver rows
MaxOver == 1
\* the status carried by a SystemExit raised by the provider or by an import
SystemExitStatus == 3

----------------------------------------------------------------------------
(* JSON values *)

JStr(s) == [t |-> "str", s |-> s, n |-> 0]
JInt(i) == [t |-> "int", s |-> "", n |-> i]
JFloat(i) == [t |-> "float", s |-> "", n |-> i]
JNull == [t |-> "null", s |-> "", n |-> 0]

\* Python truthiness of a JSON value (the filters at lines 172 and 232)
Truthy(v) ==
    CASE v.t = "str" -> v.s # ""
      [] v.t = "int" -> v.n # 0
      [] v.t = "float" -> v.n # 0
      [] OTHER -> FALSE

\* isinstance(v, (int, float)), line 232
IsNumber(v) == v.t \in {"int", "float"}

JsonValues == {JStr(""), JStr("a"), JNull} \cup {JInt(i) : i \in (0 - 1)..MaxInt}

EmptyMap == [k \in {} |-> JNull]

\* dict.get(key, default)
Get(map, key, default) == IF key \in DOMAIN map THEN map[key] ELSE default

----------------------------------------------------------------------------
(* The invocation *)

Operations == {"health_check",
               "get_associate_degree_atlas_details",
               "get_bachelor_degree_atlas_details",
               "search_bachelor_degree_programs",
               "search_associate_degree_programs"}

DetailOperations == {"get_associate_degree_atlas_details",
                     "get_bachelor_degree_atlas_details"}

SearchOperations == {"search_bachelor_degree_programs",
                     "search_associate_degree_programs"}

\* an operation name that cannot be encoded as UTF-8 (argv bytes FF FE)
UnencodableName == "nonexistent_op_FF_FE"

FunctionNames == Operations \cup {"nonexistent_op", UnencodableName}

\* whether open(..., encoding="utf-8").write can encode the text, line 31
Encodable(name) == name # UnencodableName

\* keys a caller may put in the parameter mapping
ParamKeys == {"yop_kodu", "year", "universite", "program", "sehir",
              "puan_turu", "universite_turu", "ucret", "ogretim_turu",
              "doluluk", "length", "max_results"}

KeySets == {{}} \cup {{k} : k \in ParamKeys}
           \cup {{"yop_kodu", "year"}, {"universite", "program"}}

CallerMappings == UNION {[K -> JsonValues] : K \in KeySets}

\* the second argument: text that is not JSON, a JSON array, a JSON object,
\* text nested deeper than the decoder's recursion limit, or text holding an
\* integer literal longer than the integer conversion limit
Blobs == {[kind |-> "invalid", map |-> EmptyMap],
          [kind |-> "array", map |-> EmptyMap],
          [kind |-> "too_deep", map |-> EmptyMap],
          [kind |-> "huge_integer", map |-> EmptyMap]}
         \cup {[kind |-> "object", map |-> m] : m \in CallerMappings}

Argvs == {<<"yokatlas_helper.py">>}
         \cup {<<"yokatlas_helper.py", f>> : f \in FunctionNames}
         \cup {<<"yokatlas_helper.py", f, b>> : f \in FunctionNames, b \in Blobs}

\* json.loads(sys.argv[2]), line 271: the value, a JSONDecodeError
\* (ok = FALSE), or another exception (RecursionError, ValueError), which the
\* handler at line 273 does not catch
JsonLoads(blob) ==
    CASE blob.kind = "invalid" ->
            [ok |-> FALSE, raised |-> FALSE,
             value |-> [kind |-> "object", map |-> EmptyMap]]
      [] blob.kind \in {"too_deep", "huge_integer"} ->
            [ok |-> FALSE, raised |-> TRUE,
             value |-> [kind |-> "object", map |-> EmptyMap]]
      [] OTHER ->
            [ok |-> TRUE, raised |-> FALSE,
             value |-> [kind |-> blob.kind, map |-> blob.map]]

----------------------------------------------------------------------------
(* The provider *)

Tiers == <<"MODERN", "LEGACY_OBJECT", "LEGACY_MODULE">>

TierSet == {Tiers[i] : i \in 1..3}

\* a row of a provider list: a record the typed model accepts, a record it
\* rejects, or a value json.dumps cannot serialise (a model object, a record
\* holding a datetime)
RowKinds == {"well_formed", "malformed", "unserialisable"}

\* results_limit default, lines 177 and 238
DefaultLength == 50

ProviderLists ==
    UNION {[1..n -> RowKinds] : n \in 0..MaxRows}
    \cup {[i \in 1..n |-> "well_formed"] :
            n \in (DefaultLength - 1)..(DefaultLength + MaxOver)}

\* what the provider may raise: an exception deriving from Exception, or one
\* deriving from BaseException only
ExceptionClasses ==
    {"Exception", "CancelledError", "SystemExit", "KeyboardInterrupt"}

RaiseKinds == {"raise_construct", "raise_call"}

\* what a provider entry point may do: raise while the object is built, raise
\* in the call, or return a list, None, a dict, a set (sized and iterable, not
\* a list, not serialisable) or another object (a datetime: neither sized
\* nor iterable, not serialisable)
ProviderOutcomes ==
    {[kind |-> k, rows |-> <<>>, exception |-> c] :
        k \in RaiseKinds, c \in ExceptionClasses}
    \cup {[kind |-> "none", rows |-> <<>>, exception |-> "none"],
          [kind |-> "dict", rows |-> <<"error">>, exception |-> "none"],
          [kind |-> "set", rows |-> <<"element">>, exception |-> "none"],
          [kind |-> "object", rows |-> <<>>, exception |-> "none"]}
    \cup {[kind |-> "list", rows |-> r, exception |-> "none"] :
            r \in ProviderLists}

NotCalled == [kind |-> "not_called", rows |-> <<>>, exception |-> "none"]

ProviderFaultMessage == <<"provider fault">>

Raises(outcome) == outcome.kind \in RaiseKinds

\* `except Exception` (lines 117, 130, 187, 249 and 319) catches what the
\* provider raised
Caught(outcome) == Raises(outcome) /\ outcome.exception = "Exception"

\* `for program_data in results` (line 146) can iterate the value
Iterable(v) == v.kind \in {"list", "dict", "set"}

\* len(results) (line 208) is defined
Sized(v) == v.kind \in {"list", "dict", "set"}

\* the type named in the TypeError of a value that is not iterable or sized
TypeName(v) == IF v.kind = "none" THEN "NoneType" ELSE "datetime.datetime"

\* json.dumps cannot serialise the value
Unserialisable(v) ==
    \/ v.kind \in {"set", "object"}
    \/ \E i \in 1..Len(v.rows) : v.rows[i] = "unserialisable"

\* the type json.dumps names in its TypeError
JsonTypeName(v) == IF v.kind = "set" THEN "set" ELSE "datetime"

IsList(v) == v.kind = "list"


\* len(x) of a provider value; None has no length
PyLen(v) == Len(v.rows)

Min(a, b) == IF a < b THEN a ELSE b

Max(a, b) == IF a > b THEN a ELSE b

\* result[:results_limit] of a list, lines 180 and 241
PySlicePrefix(rows, limit) ==
    CASE limit.t = "null" -> rows
      [] limit.t = "int" /\ limit.n >= 0 -> SubSeq(rows, 1, Min(limit.n, Len(rows)))
      [] OTHER -> SubSeq(rows, 1, Max(Len(rows) + limit.n, 0))

\* a slice bound that is neither an integer nor None raises TypeError
SliceRaises(limit) == limit.t \notin {"int", "null"}

\* ProgramInfo(**program_data).model_dump(), falling back to the raw value
\* when the coercion raises, lines 146-151
ValidateRow(row) == IF row = "well_formed" THEN "validated" ELSE row

ValidateRows(rows) == [i \in 1..Len(rows) |-> ValidateRow(rows[i])]

----------------------------------------------------------------------------
(* Results of the operations *)

NoResult == [kind |-> "no_result"]

\* an operation returns `value`
Ret(value, calls, handed) ==
    [raised |-> FALSE, escaped |-> "none", exc |-> <<>>, value |-> value,
     calls |-> calls, handed |-> handed]

\* an exception deriving from Exception leaves the operation
Raise(message) ==
    [raised |-> TRUE, escaped |-> "none", exc |-> message, value |-> NoResult,
     calls |-> <<>>, handed |-> <<>>]

\* an exception the provider raised that `except Exception` does not catch
\* leaves the operation
Escape(outcome, calls, handed) ==
    [raised |-> TRUE, escaped |-> outcome.exception, exc |-> <<>>,
     value |-> NoResult, calls |-> calls, handed |-> handed]

InstallSuggestion ==
    "Please install the yokatlas_py package: pip install git+https://github.com/emirks/yokatlas-py.git"

get_module_unavailable_error(name) ==
    [error |-> <<"yokatlas_py module is not available">>,
     function |-> name,
     suggestion |-> InstallSuggestion,
     status |-> "module_not_found",
     available_functions |->
        IF ~YOKATLAS_AVAILABLE THEN <<"health_check">> ELSE <<"all">>]

health_check ==
    [status |-> "healthy",
     server |-> "YOKATLAS API Server",
     api_version |-> "v1.0",
     smart_search |-> NEW_SMART_API,
     yokatlas_available |-> YOKATLAS_AVAILABLE,
     message |->
        IF YOKATLAS_AVAILABLE
        THEN "All systems operational"
        ELSE "yokatlas_py module not available - install required for full functionality"]

\* the value a provider call handed back
Returned(outcome) == [kind |-> outcome.kind, rows |-> outcome.rows]

DetailError(message, yop_kodu, year) ==
    [error |-> message, program_id |-> yop_kodu, year |-> year]

get_associate_degree_atlas_details(yop_kodu, year, outcome) ==
    IF ~YOKATLAS_AVAILABLE
    THEN Ret(get_module_unavailable_error("get_associate_degree_atlas_details"),
             <<>>, <<>>)
    ELSE CASE outcome.kind = "raise_construct" ->
                IF Caught(outcome)
                THEN Ret(DetailError(ProviderFaultMessage, yop_kodu, year),
                         <<"YOKATLASOnlisansAtlasi">>, <<>>)
                ELSE Escape(outcome, <<"YOKATLASOnlisansAtlasi">>, <<>>)
           [] outcome.kind = "raise_call" ->
                IF Caught(outcome)
                THEN Ret(DetailError(ProviderFaultMessage, yop_kodu, year),
                         <<"YOKATLASOnlisansAtlasi", "fetch_all_details">>, <<>>)
                ELSE Escape(outcome, <<"YOKATLASOnlisansAtlasi", "fetch_all_details">>,
                            <<>>)
           [] OTHER ->
                Ret(Returned(outcome),
                    <<"YOKATLASOnlisansAtlasi", "fetch_all_details">>, <<>>)

get_bachelor_degree_atlas_details(yop_kodu, year, outcome) ==
    IF ~YOKATLAS_AVAILABLE
    THEN Ret(get_module_unavailable_error("get_bachelor_degree_atlas_details"),
             <<>>, <<>>)
    ELSE CASE outcome.kind = "raise_construct" ->
                IF Caught(outcome)
                THEN Ret(DetailError(ProviderFaultMessage, yop_kodu, year),
                         <<"YOKATLASLisansAtlasi">>, <<>>)
                ELSE Escape(outcome, <<"YOKATLASLisansAtlasi">>, <<>>)
           [] outcome.kind = "raise_call" ->
                IF Caught(outcome)
                THEN Ret(DetailError(ProviderFaultMessage, yop_kodu, year),
                         <<"YOKATLASLisansAtlasi", "fetch_all_details">>, <<>>)
                ELSE Escape(outcome, <<"YOKATLASLisansAtlasi", "fetch_all_details">>,
                            <<>>)
           [] OTHER ->
                Ret(Returned(outcome),
                    <<"YOKATLASLisansAtlasi", "fetch_all_details">>, <<>>)

----------------------------------------------------------------------------
(* Search operations *)

\* faulty variant of PruneFalsy: only None is dropped
PruneFalsy_NoneOnly(map) ==
    [k \in {j \in DOMAIN map : map[j] # JNull} |-> map[k]]

\* the comprehension at line 172: keep the truthy values
PruneFalsy(map) == [k \in {j \in DOMAIN map : Truthy(map[j])} |-> map[k]]

\* the comprehension at lines 229-233: keep the truthy values and the numbers
PruneKeepNumbers(map) ==
    [k \in {j \in DOMAIN map : Truthy(map[j]) \/ IsNumber(map[j])} |-> map[k]]

\* the legacy parameter map of the bachelor search, lines 161-170
BachelorLegacyFields(p) ==
    ("uni_adi" :> Get(p, "universite", JStr("")))
    @@ ("program_adi" :> Get(p, "program", JStr("")))
    @@ ("sehir_adi" :> Get(p, "sehir", JStr("")))
    @@ ("puan_turu" :> Get(p, "puan_turu", JStr("say")))
    @@ ("universite_turu" :> Get(p, "universite_turu", JStr("")))
    @@ ("ucret_burs" :> Get(p, "ucret", JStr("")))
    @@ ("ogretim_turu" :> Get(p, "ogretim_turu", JStr("")))
    @@ ("page" :> JInt(1))

\* the legacy parameter map of the associate search, lines 215-227
AssociateLegacyFields(p) ==
    ("yop_kodu" :> JStr(""))
    @@ ("uni_adi" :> Get(p, "universite", JStr("")))
    @@ ("program_adi" :> Get(p, "program", JStr("")))
    @@ ("sehir_adi" :> Get(p, "sehir", JStr("")))
    @@ ("universite_turu" :> Get(p, "universite_turu", JStr("")))
    @@ ("ucret_burs" :> Get(p, "ucret", JStr("")))
    @@ ("ogretim_turu" :> Get(p, "ogretim_turu", JStr("")))
    @@ ("doluluk" :> Get(p, "doluluk", JStr("")))
    @@ ("ust_puan" :> JFloat(550))
    @@ ("alt_puan" :> JFloat(150))
    @@ ("page" :> JInt(1))

BachelorLegacyParams(p) == PruneFalsy(BachelorLegacyFields(p))

AssociateLegacyParams(p) == PruneKeepNumbers(AssociateLegacyFields(p))

SearchMethodOnError == IF NEW_SMART_API THEN "smart_search" ELSE "legacy_api"

\* the except branch at lines 187-192
BachelorSearchError(message, p) ==
    [error |-> message, search_method |-> SearchMethodOnError,
     parameters_used |-> p]

\* the except branch at lines 249-255
AssociateSearchError(message, p) ==
    [error |-> message, search_method |-> SearchMethodOnError,
     parameters_used |-> p, program_type |-> "associate_degree"]

NotIterableMessage(v) == <<"'", TypeName(v), "' object is not iterable">>

NoLenMessage(v) == <<"object of type '", TypeName(v), "' has no len()">>

NoGetMessage == <<"'list' object has no attribute 'get'">>

SliceMessage ==
    <<"slice indices must be integers or None or have an __index__ method">>

\* the rows kept for display, lines 177-181 and 238-242
LegacyPrograms(returned, results_limit) ==
    IF IsList(returned)
    THEN [kind |-> "list", rows |-> PySlicePrefix(returned.rows, results_limit)]
    ELSE returned

\* lines 182 and 243
LegacyTotalFound(returned) == IF IsList(returned) THEN PyLen(returned) ELSE 0

\* lines 134-192; p is the parsed parameter value handed over by main
search_bachelor_degree_programs(p, outcome) ==
    IF ~YOKATLAS_AVAILABLE
    THEN Ret(get_module_unavailable_error("search_bachelor_degree_programs"),
             <<>>, <<>>)
    ELSE IF NEW_SMART_API
    THEN CASE Caught(outcome) ->
                Ret(BachelorSearchError(ProviderFaultMessage, p),
                    <<"search_lisans_programs">>, <<>>)
           [] Raises(outcome) ->
                Escape(outcome, <<"search_lisans_programs">>, <<>>)
           [] ~Iterable(outcome) ->
                Ret(BachelorSearchError(NotIterableMessage(outcome), p),
                    <<"search_lisans_programs">>, <<>>)
           [] OTHER ->
                Ret([programs |-> [kind |-> "list",
                                   rows |-> ValidateRows(outcome.rows)],
                     total_found |-> Len(ValidateRows(outcome.rows)),
                     search_method |-> "smart_search_v0.4.3",
                     fuzzy_matching |-> TRUE],
                    <<"search_lisans_programs">>, <<>>)
    ELSE IF p.kind # "object"
    THEN Ret(BachelorSearchError(NoGetMessage, p), <<>>, <<>>)
    ELSE LET legacy_params == BachelorLegacyParams(p.map)
             results_limit == Get(p.map, "length", JInt(DefaultLength))
         IN  CASE outcome.kind = "raise_construct" ->
                    IF Caught(outcome)
                    THEN Ret(BachelorSearchError(ProviderFaultMessage, p),
                             <<"YOKATLASLisansTercihSihirbazi">>,
                             <<legacy_params>>)
                    ELSE Escape(outcome, <<"YOKATLASLisansTercihSihirbazi">>,
                                <<legacy_params>>)
               [] outcome.kind = "raise_call" ->
                    IF Caught(outcome)
                    THEN Ret(BachelorSearchError(ProviderFaultMessage, p),
                             <<"YOKATLASLisansTercihSihirbazi", "search">>,
                             <<legacy_params>>)
                    ELSE Escape(outcome,
                                <<"YOKATLASLisansTercihSihirbazi", "search">>,
                                <<legacy_params>>)
               [] IsList(outcome) /\ SliceRaises(results_limit) ->
                    Ret(BachelorSearchError(SliceMessage, p),
                        <<"YOKATLASLisansTercihSihirbazi", "search">>,
                        <<legacy_params>>)
               [] OTHER ->
                    Ret([programs |->
                            LegacyPrograms(Returned(outcome), results_limit),
                         total_found |-> LegacyTotalFound(Returned(outcome)),
                         search_method |-> "legacy_api",
                         fuzzy_matching |-> FALSE],
                        <<"YOKATLASLisansTercihSihirbazi", "search">>,
                        <<legacy_params>>)

\* lines 195-255
search_associate_degree_programs(p, outcome) ==
    IF ~YOKATLAS_AVAILABLE
    THEN Ret(get_module_unavailable_error("search_associate_degree_programs"),
             <<>>, <<>>)
    ELSE IF NEW_SMART_API
    THEN CASE Caught(outcome) ->
                Ret(AssociateSearchError(ProviderFaultMessage, p),
                    <<"search_onlisans_programs">>, <<>>)
           [] Raises(outcome) ->
                Escape(outcome, <<"search_onlisans_programs">>, <<>>)
           [] ~Sized(outcome) ->
                Ret(AssociateSearchError(NoLenMessage(outcome), p),
                    <<"search_onlisans_programs">>, <<>>)
           [] OTHER ->
                Ret([programs |-> Returned(outcome),
                     total_found |-> PyLen(Returned(outcome)),
                     search_method |-> "smart_search_v0.4.3",
                     fuzzy_matching |-> TRUE,
                     program_type |-> "associate_degree"],
                    <<"search_onlisans_programs">>, <<>>)
    ELSE IF p.kind # "object"
    THEN Ret(AssociateSearchError(NoGetMessage, p), <<>>, <<>>)
    ELSE LET legacy_params == AssociateLegacyParams(p.map)
             results_limit == Get(p.map, "length", JInt(DefaultLength))
         IN  CASE outcome.kind = "raise_construct" ->
                    IF Caught(outcome)
                    THEN Ret(AssociateSearchError(ProviderFaultMessage, p),
                             <<"YOKATLASOnlisansTercihSihirbazi">>,
                             <<legacy_params>>)
                    ELSE Escape(outcome, <<"YOKATLASOnlisansTercihSihirbazi">>,
                                <<legacy_params>>)
               [] outcome.kind = "raise_call" ->
                    IF Caught(outcome)
                    THEN Ret(AssociateSearchError(ProviderFaultMessage, p),
                             <<"YOKATLASOnlisansTercihSihirbazi", "search">>,
                             <<legacy_params>>)
                    ELSE Escape(outcome,
                                <<"YOKATLASOnlisansTercihSihirbazi", "search">>,
                                <<legacy_params>>)
               [] IsList(outcome) /\ SliceRaises(results_limit) ->
                    Ret(AssociateSearchError(SliceMessage, p),
                        <<"YOKATLASOnlisansTercihSihirbazi", "search">>,
                        <<legacy_params>>)
               [] OTHER ->
                    Ret([programs |->
                            LegacyPrograms(Returned(outcome), results_limit),
                         total_found |-> LegacyTotalFound(Returned(outcome)),
                         search_method |-> "legacy_api",
                         fuzzy_matching |-> FALSE,
                         program_type |-> "associate_degree"],
                        <<"YOKATLASOnlisansTercihSihirbazi", "search">>,
                        <<legacy_params>>)

----------------------------------------------------------------------------
(* The process *)

Running == 0 - 1

\* str(e) of the OSError of a failed write
IoFaultMessage == <<"[Errno 28] No space left on device">>

\* json.dumps(result) at line 315 raises TypeError
JsonDumpsRaises(doc) ==
    CASE "programs" \in DOMAIN doc -> Unserialisable(doc.programs)
      [] "rows" \in DOMAIN doc -> Unserialisable(doc)
      [] OTHER -> FALSE

NotSerializableMessage(doc) ==
    <<"Object of type ",
      JsonTypeName(IF "programs" \in DOMAIN doc THEN doc.programs ELSE doc),
      " is not JSON serializable">>

KeyErrorMessage(key) == <<"'", key, "'">>

NotSubscriptableMessage == <<"list indices must be integers or slices, not str">>

\* the subscripts params["yop_kodu"], params["year"] at lines 288 and 292
SubscriptFault(p) ==
    CASE p.kind # "object" -> NotSubscriptableMessage
      [] "yop_kodu" \notin DOMAIN p.map -> KeyErrorMessage("yop_kodu")
      [] "year" \notin DOMAIN p.map -> KeyErrorMessage("year")
      [] OTHER -> <<>>

\* the if / elif chain of main, lines 284-313
Dispatched(name, p, outcome) ==
    CASE name = "health_check" -> Ret(health_check, <<>>, <<>>)
      [] name = "get_associate_degree_atlas_details" ->
            IF SubscriptFault(p) # <<>>
            THEN Raise(SubscriptFault(p))
            ELSE get_associate_degree_atlas_details(
                    p.map["yop_kodu"], p.map["year"], outcome)
      [] name = "get_bachelor_degree_atlas_details" ->
            IF SubscriptFault(p) # <<>>
            THEN Raise(SubscriptFault(p))
            ELSE get_bachelor_degree_atlas_details(
                    p.map["yop_kodu"], p.map["year"], outcome)
      [] name = "search_bachelor_degree_programs" ->
            search_bachelor_degree_programs(p, outcome)
      [] name = "search_associate_degree_programs" ->
            search_associate_degree_programs(p, outcome)
      [] OTHER -> Ret([error |-> <<"Unknown function: ", name>>], <<>>, <<>>)

----------------------------------------------------------------------------
(* Writes to the log file and to the standard streams *)

\* a call of log_to_file, named after the line of main that makes it
LogCall(line) == [log |-> line]

IsLogCall(e) == "log" \in DOMAIN e

\* where the print of log_to_file (line 34) goes: print(..., file=sys.stderr)
\* writes to sys.stdout when sys.stderr is None, and nowhere when both are
LogStream ==
    CASE ~stderr_closed -> "stderr"
      [] stderr_closed /\ ~stdout_closed -> "stdout"
      [] OTHER -> "none"

\* log_to_file, lines 26-34, can raise at two places: appending to the log
\* file (lines 30-31: nothing is appended) and printing to the stream
\* (line 34: the entry has been appended)
LogFaultSites == {"file"} \cup ({LogStream} \ {"none"})

\* print(json.dumps(...)) at lines 263, 275, 316 and 325 can raise when
\* sys.stdout is a stream; it does nothing when sys.stdout is None
PrintFaultSites == IF stdout_closed THEN {} ELSE {"stdout"}

FaultSites(e) == IF IsLogCall(e) THEN LogFaultSites ELSE PrintFaultSites

NoFault == [failure |-> 0, site |-> "none"]

\* of the log writes and prints `events`, the first one that raises (0: none
\* does), and where it raises
Faults(events) ==
    {NoFault} \cup
    (IF io_reliable
     THEN {}
     ELSE UNION {{[failure |-> i, site |-> s] : s \in FaultSites(events[i])} :
                    i \in 1..Len(events)})

LogCallsIn(events) ==
    Cardinality({j \in 1..Len(events) : IsLogCall(events[j])})

\* the log writes and prints of a step that complete before the failing one
Executed(events, fault) ==
    IF fault.failure = 0
    THEN events
    ELSE SubSeq(events, 1, fault.failure - 1)

ReachesStdout(e) ==
    IF IsLogCall(e) THEN LogStream = "stdout" ELSE ~stdout_closed

Written(events, fault) == SelectSeq(Executed(events, fault), ReachesStdout)

\* entries appended to the log file: a log write that fails at its print has
\* appended its entry
Appended(events, fault) ==
    LogCallsIn(Executed(events, fault))
    + (IF fault.failure # 0 /\ IsLogCall(events[fault.failure])
          /\ fault.site # "file"
       THEN 1 ELSE 0)

\* the effect on the sinks of running `events` up to the failing one
Step(events, fault) ==
    /\ stdout' = stdout \o Written(events, fault)
    /\ log_lines' = log_lines + Appended(events, fault)
    /\ stream_fault' = (stream_fault \/ fault.site \in {"stderr", "stdout"})

\* the process ended by the default action of SIGINT, which the interpreter
\* restores and raises on itself after an unhandled KeyboardInterrupt
SigInt == 0 - 2

\* the exit status of an exception that reaches the interpreter's top level
ExitStatus(class) ==
    CASE class = "SystemExit" -> SystemExitStatus
      [] class = "KeyboardInterrupt" -> SigInt
      [] OTHER -> 1

\* the interpreter prints a traceback to standard error, unless the
\* exception is SystemExit
PrintsTraceback(class) == class # "SystemExit"

\* flushing the standard streams at shutdown.  A stream fails to flush when a
\* write to it failed before, or when an unreliable standard error cannot take
\* the traceback; an unreliable standard output may fail to flush what was
\* printed to it, which then is not delivered
FlushOutcomes(out, broken, traceback) ==
    {[delivered |-> TRUE, failed |-> FALSE]}
    \cup (IF broken \/ (traceback /\ ~io_reliable /\ ~stderr_closed)
          THEN {[delivered |-> TRUE, failed |-> TRUE]}
          ELSE {})
    \cup (IF ~io_reliable /\ out # <<>>
          THEN {[delivered |-> FALSE, failed |-> TRUE]}
          ELSE {})

\* the exit status: the interpreter turns it into 120 when flushing a
\* standard stream fails at shutdown
ExitCode(code, failed) == IF failed /\ code # SigInt THEN 120 ELSE code

\* the process ends: by sys.exit(code) or the return of main, or, with
\* `traceback`, by an exception nothing catches
Finish(code, site, traceback) ==
    /\ pc' = "exited"
    /\ exit_site' = site
    /\ \E flush \in FlushOutcomes(stdout', stream_fault', traceback) :
          /\ delivered' = flush.delivered
          /\ exit_code' = ExitCode(code, flush.failed)

\* an exception deriving from Exception leaves main, or the module, without
\* being handled
Uncaught(site) == Finish(1, site, TRUE)

\* an exception that `except Exception` / `except ImportError` does not catch
\* reaches the interpreter's top level
Escaped(class, site) == Finish(ExitStatus(class), site, PrintsTraceback(class))

Continue(label) ==
    /\ pc' = label
    /\ UNCHANGED <<exit_code, exit_site, delivered>>

----------------------------------------------------------------------------
(* Actions *)

env == <<importable, io_reliable, stdout_closed, stderr_closed, argv>>

detected == <<attempted, import_raised, NEW_SMART_API, YOKATLAS_AVAILABLE>>

provider == <<provider_outcome, provider_calls, wizard_args>>

sinks == <<stdout, log_lines, stream_fault>>

\* setup_logging, lines 11-23, called at line 38: creating the logs directory
\* or opening the log file may raise, which ends the process before any import
SetupLogging ==
    /\ pc = "setup_logging"
    /\ UNCHANGED <<env, detected, function_name, params, result, exc, provider,
                   sinks>>
    /\ \E created \in (IF io_reliable THEN {TRUE} ELSE BOOLEAN) :
          IF created
          THEN Continue("import_modern")
          ELSE Uncaught("setup_failed")

\* what an import block that does not bind raises: ImportError, which the
\* guards at lines 51, 62 and 73 catch, or something they do not catch: another
\* Exception (RuntimeError stands for TypeError, AttributeError, ...),
\* SystemExit or KeyboardInterrupt
ImportFailures ==
    {"ImportError", "RuntimeError", "SystemExit", "KeyboardInterrupt"}

\* the flags an import block stores when it completes (lines 49-50, 60-61,
\* 71-72), and the final fallback (lines 75-76)
Recording(tier) ==
    CASE tier = "MODERN" -> [modern |-> TRUE, available |-> TRUE]
      [] tier = "LEGACY_OBJECT" -> [modern |-> FALSE, available |-> TRUE]
      [] tier = "LEGACY_MODULE" -> [modern |-> FALSE, available |-> TRUE]
      [] OTHER -> [modern |-> FALSE, available |-> FALSE]

Record(tier) ==
    /\ NEW_SMART_API' = Recording(tier).modern
    /\ YOKATLAS_AVAILABLE' = Recording(tier).available

\* the first import block, lines 44-51: it binds, raises ImportError (the
\* next block runs), or raises something else, which nothing catches
ImportModern ==
    /\ pc = "import_modern"
    /\ attempted' = Append(attempted, "MODERN")
    /\ UNCHANGED <<env, function_name, params, result, exc, provider, sinks>>
    /\ IF "MODERN" \in importable
       THEN /\ import_raised' = Append(import_raised, "none")
            /\ Record("MODERN")
            /\ Continue("main_start")
       ELSE \E raised \in ImportFailures :
               /\ import_raised' = Append(import_raised, raised)
               /\ UNCHANGED <<NEW_SMART_API, YOKATLAS_AVAILABLE>>
               /\ IF raised = "ImportError"
                  THEN Continue("import_legacy_object")
                  ELSE Escaped(raised, "import_failed")

\* the second import block, lines 52-62
ImportLegacyObject ==
    /\ pc = "import_legacy_object"
    /\ attempted' = Append(attempted, "LEGACY_OBJECT")
    /\ UNCHANGED <<env, function_name, params, result, exc, provider, sinks>>
    /\ IF "LEGACY_OBJECT" \in importable
       THEN /\ import_raised' = Append(import_raised, "none")
            /\ Record("LEGACY_OBJECT")
            /\ Continue("main_start")
       ELSE \E raised \in ImportFailures :
               /\ import_raised' = Append(import_raised, raised)
               /\ UNCHANGED <<NEW_SMART_API, YOKATLAS_AVAILABLE>>
               /\ IF raised = "ImportError"
                  THEN Continue("import_legacy_module")
                  ELSE Escaped(raised, "import_failed")

\* the third import block and the final fallback, lines 63-76
ImportLegacyModule ==
    /\ pc = "import_legacy_module"
    /\ attempted' = Append(attempted, "LEGACY_MODULE")
    /\ UNCHANGED <<env, function_name, params, result, exc, provider, sinks>>
    /\ IF "LEGACY_MODULE" \in importable
       THEN /\ import_raised' = Append(import_raised, "none")
            /\ Record("LEGACY_MODULE")
            /\ Continue("main_start")
       ELSE \E raised \in ImportFailures :
               /\ import_raised' = Append(import_raised, raised)
               /\ IF raised = "ImportError"
                  THEN /\ Record("NONE")
                       /\ Continue("main_start")
                  ELSE /\ UNCHANGED <<NEW_SMART_API, YOKATLAS_AVAILABLE>>
                       /\ Escaped(raised, "import_failed")

NoFunctionDocument == [error |-> <<"No function specified">>]

InvalidJsonDocument == [error |-> <<"Invalid JSON parameters">>]

\* main, lines 260-264
MainStart ==
    /\ pc = "main_start"
    /\ UNCHANGED <<env, detected, function_name, params, result, exc, provider>>
    /\ LET events == IF Len(argv) < 2
                     THEN <<LogCall("260"), NoFunctionDocument>>
                     ELSE <<LogCall("260")>>
       IN  \E fault \in Faults(events) :
              /\ Step(events, fault)
              /\ IF fault.failure # 0
                 THEN Uncaught("uncaught")
                 ELSE IF Len(argv) < 2
                 THEN Finish(1, "no_function", FALSE)
                 ELSE Continue("read_function")

\* main, lines 266-267; the log write raises UnicodeEncodeError at line 31
\* when the operation name cannot be encoded
ReadFunction ==
    /\ pc = "read_function"
    /\ function_name' = argv[2]
    /\ UNCHANGED <<env, detected, params, result, exc, provider>>
    /\ IF ~Encodable(argv[2])
       THEN /\ Step(<<>>, NoFault)
            /\ Uncaught("uncaught")
       ELSE \E fault \in Faults(<<LogCall("267")>>) :
               /\ Step(<<LogCall("267")>>, fault)
               /\ IF fault.failure # 0
                  THEN Uncaught("uncaught")
                  ELSE Continue("parse_params")

\* main, lines 269-279
ParseParams ==
    /\ pc = "parse_params"
    /\ UNCHANGED <<env, detected, function_name, result, exc, provider>>
    /\ IF Len(argv) > 2
       THEN CASE JsonLoads(argv[3]).raised ->
                 /\ UNCHANGED params
                 /\ Step(<<>>, NoFault)
                 /\ Uncaught("uncaught")
              [] JsonLoads(argv[3]).ok ->
                 /\ params' = JsonLoads(argv[3]).value
                 /\ \E fault \in Faults(<<LogCall("272")>>) :
                       /\ Step(<<LogCall("272")>>, fault)
                       /\ IF fault.failure # 0
                          THEN Uncaught("uncaught")
                          ELSE Continue("dispatch")
              [] OTHER ->
                 /\ UNCHANGED params
                 /\ LET events == <<LogCall("274"), InvalidJsonDocument>>
                    IN  \E fault \in Faults(events) :
                           /\ Step(events, fault)
                           /\ IF fault.failure # 0
                              THEN Uncaught("uncaught")
                              ELSE Finish(1, "invalid_json", FALSE)
       ELSE /\ params' = [kind |-> "object", map |-> EmptyMap]
            /\ \E fault \in Faults(<<LogCall("279")>>) :
                  /\ Step(<<LogCall("279")>>, fault)
                  /\ IF fault.failure # 0
                     THEN Uncaught("uncaught")
                     ELSE Continue("dispatch")

\* log writes inside the try block before the result is printed:
\* line 282, and lines 295 / 299 or 304 / 308 around a search
DispatchLogCalls(name) ==
    CASE name = "search_bachelor_degree_programs" ->
            <<LogCall("282"), LogCall("295"), LogCall("299")>>
      [] name = "search_associate_degree_programs" ->
            <<LogCall("282"), LogCall("304"), LogCall("308")>>
      [] OTHER -> <<LogCall("282")>>

\* the log writes of the try block that precede the call of the operation
LogCallsBeforeCall(name) ==
    SubSeq(DispatchLogCalls(name), 1, Min(2, Len(DispatchLogCalls(name))))

Pending == [kind |-> "pending", rows |-> <<>>, exception |-> "none"]

\* a detail lookup reaches `await ...fetch_all_details()` (lines 115, 128):
\* main is suspended until the provider's coroutine completes
Suspends(name, p, outcome) ==
    /\ name \in DetailOperations
    /\ YOKATLAS_AVAILABLE
    /\ SubscriptFault(p) = <<>>
    /\ outcome.kind # "raise_construct"

\* main, lines 281-313: the try block up to the assignment of result, or up
\* to the await of a detail lookup
Dispatch ==
    /\ pc = "dispatch"
    /\ UNCHANGED <<env, detected, function_name, params>>
    /\ \E fault \in Faults(DispatchLogCalls(function_name)),
          outcome \in ProviderOutcomes :
          LET call == Dispatched(function_name, params, outcome)
              called == fault.failure = 0 \/ fault.failure = 3
              suspends == Suspends(function_name, params, outcome)
              escapes == called /\ ~suspends /\ call.escaped # "none"
          IN  /\ IF escapes
                 THEN Step(LogCallsBeforeCall(function_name), NoFault)
                 ELSE Step(DispatchLogCalls(function_name), fault)
              /\ IF called
                 THEN /\ provider_calls' = call.calls
                      /\ wizard_args' = call.handed
                      /\ provider_outcome' =
                            CASE call.calls = <<>> -> NotCalled
                              [] suspends -> Pending
                              [] OTHER -> outcome
                 ELSE UNCHANGED provider
              /\ CASE escapes ->
                        /\ UNCHANGED <<exc, result>>
                        /\ Escaped(call.escaped, "escaped")
                   [] ~escapes /\ fault.failure # 0 ->
                        /\ exc' = IoFaultMessage
                        /\ result' = IF fault.failure = 3 /\ ~call.raised
                                     THEN call.value ELSE result
                        /\ Continue("except")
                   [] fault.failure = 0 /\ suspends ->
                        /\ UNCHANGED <<exc, result>>
                        /\ Continue("awaiting")
                   [] ~escapes /\ fault.failure = 0 /\ ~suspends
                      /\ call.raised ->
                        /\ exc' = call.exc
                        /\ UNCHANGED result
                        /\ Continue("except")
                   [] OTHER ->
                        /\ result' = call.value
                        /\ UNCHANGED exc
                        /\ Continue("emit")

\* the awaited fetch_all_details completes (lines 115-118, 128-131) and the
\* detail lookup returns to main (lines 287-293)
AwaitProvider ==
    /\ pc = "awaiting"
    /\ UNCHANGED <<env, detected, function_name, params, wizard_args, sinks>>
    /\ \E outcome \in ProviderOutcomes :
          /\ outcome.kind # "raise_construct"
          /\ LET call == Dispatched(function_name, params, outcome)
             IN  /\ provider_outcome' = outcome
                 /\ provider_calls' = call.calls
                 /\ CASE call.escaped # "none" ->
                           /\ UNCHANGED <<exc, result>>
                           /\ Escaped(call.escaped, "escaped")
                      [] call.escaped = "none" /\ call.raised ->
                           /\ exc' = call.exc
                           /\ UNCHANGED result
                           /\ Continue("except")
                      [] OTHER ->
                           /\ result' = call.value
                           /\ UNCHANGED exc
                           /\ Continue("emit")

\* main, lines 315-317, and the return of main.  json.dumps(result) is
\* evaluated at line 315 before the log write: a result it cannot serialise
\* raises TypeError inside the try block
EmitResult ==
    /\ pc = "emit"
    /\ UNCHANGED <<env, detected, function_name, params, result, provider>>
    /\ IF JsonDumpsRaises(result)
       THEN /\ Step(<<>>, NoFault)
            /\ exc' = NotSerializableMessage(result)
            /\ Continue("except")
       ELSE LET events == <<LogCall("315"), result, LogCall("317")>>
            IN  \E fault \in Faults(events) :
                   /\ Step(events, fault)
                   /\ IF fault.failure # 0
                      THEN /\ exc' = IoFaultMessage
                           /\ Continue("except")
                      ELSE /\ UNCHANGED exc
                           /\ Finish(0, "returned", FALSE)

\* main, lines 319-326
HandleException ==
    /\ pc = "except"
    /\ UNCHANGED <<env, detected, function_name, params, result, exc, provider>>
    /\ LET events == <<LogCall("320"), LogCall("321"), LogCall("324"),
                       [error |-> exc]>>
       IN  \E fault \in Faults(events) :
              /\ Step(events, fault)
              /\ IF fault.failure # 0
                 THEN Uncaught("uncaught")
                 ELSE Finish(1, "caught_fault", FALSE)

\* mappings whose values are all the string "a"
PlainMappings == UNION {[K -> {JStr("a")}] : K \in KeySets}

\* the invocations on which failing and closed streams are explored
FaultArgvs ==
    {a \in Argvs : Len(a) > 2 /\ a[3].kind = "object" =>
                      a[3].map \in PlainMappings}

InitProcess ==
    /\ importable \in SUBSET TierSet
    /\ pc = "setup_logging"
    /\ attempted = <<>>
    /\ import_raised = <<>>
    /\ NEW_SMART_API = FALSE
    /\ YOKATLAS_AVAILABLE = FALSE
    /\ function_name = ""
    /\ params = [kind |-> "object", map |-> EmptyMap]
    /\ result = NoResult
    /\ exc = <<>>
    /\ stdout = <<>>
    /\ exit_code = Running
    /\ exit_site = "running"
    /\ provider_outcome = NotCalled
    /\ provider_calls = <<>>
    /\ wizard_args = <<>>
    /\ log_lines = 0
    /\ stream_fault = FALSE
    /\ delivered = TRUE

\* the standard streams are open, and they and the log file never fail
Init ==
    /\ InitProcess
    /\ argv \in Argvs
    /\ io_reliable = TRUE
    /\ stdout_closed = FALSE
    /\ stderr_closed = FALSE

\* a standard stream may be closed when the process starts; setting up the
\* log, appending to it or writing to a standard stream may raise, and the
\* standard streams may fail to flush at shutdown
InitLogFault ==
    /\ InitProcess
    /\ argv \in FaultArgvs
    /\ io_reliable = FALSE
    /\ stdout_closed \in BOOLEAN
    /\ stderr_closed \in BOOLEAN

Next ==
    \/ SetupLogging
    \/ ImportModern
    \/ ImportLegacyObject
    \/ ImportLegacyModule
    \/ MainStart
    \/ ReadFunction
    \/ ParseParams
    \/ Dispatch
    \/ AwaitProvider
    \/ EmitResult
    \/ HandleException

Spec == Init /\ [][Next]_vars

SpecLogFault == InitLogFault /\ [][Next]_vars

----------------------------------------------------------------------------
(* Properties *)

Exited == pc = "exited"

IsDocument(e) == ~IsLogCall(e)

\* the JSON documents delivered on standard output, in order
Documents == IF delivered THEN SelectSeq(stdout, IsDocument) ELSE <<>>

\* the invocation names an operation and its parameter blob, if any, is JSON
WellFormedInvocation ==
    /\ Len(argv) >= 2
    /\ Len(argv) > 2 => argv[3].kind \in {"array", "object"}

\* the invocation names an operation and its parameters are a mapping
MappingInvocation ==
    /\ Len(argv) >= 2
    /\ Len(argv) > 2 => argv[3].kind = "object"

IsEnvelope(doc) == "programs" \in DOMAIN doc

ReferencesOperation(doc, name) ==
    \/ "function" \in DOMAIN doc /\ doc.function = name
    \/ "operation" \in DOMAIN doc /\ doc.operation = name

\* an import block has completed, or all three have raised ImportError
DetectionFinished ==
    /\ pc \notin {"setup_logging", "import_modern", "import_legacy_object",
                  "import_legacy_module"}
    /\ exit_site \notin {"setup_failed", "import_failed"}

\* main has been invoked and the process has ended
MainExited == Exited /\ DetectionFinished

\* C1: every run of main ends with exactly one JSON document on standard
\* output, whatever the arguments, the capability state, the provider's
\* behaviour and the outcome of the log writes.
C1_ExactlyOneDocument == MainExited => Len(Documents) = 1

\* C2: the process exits 1 exactly when no operation name was given, when the
\* parameter blob is not JSON, or when a fault reached main's handler, each
\* time after printing the matching error object; an invalid blob ends the run
\* before anything is dispatched; an unknown operation name prints
\* "Unknown function: <name>" without touching the provider and exits 0, as
\* does every result an operation returns.
C2_ExitCodes ==
    MainExited =>
        /\ exit_code \in {0, 1}
        /\ exit_code = 1 <=>
              \/ Len(argv) < 2
              \/ Len(argv) > 2 /\ argv[3].kind = "invalid"
              \/ exc # <<>>
        /\ Len(argv) < 2 =>
              Documents = <<[error |-> <<"No function specified">>]>>
        /\ Len(argv) > 2 /\ argv[3].kind = "invalid" =>
              /\ Documents = <<[error |-> <<"Invalid JSON parameters">>]>>
              /\ result = NoResult
              /\ provider_calls = <<>>
        /\ exc # <<>> => Documents = <<[error |-> exc]>>
        /\ exit_code = 0 => Documents = <<result>>
        /\ WellFormedInvocation /\ argv[2] \notin Operations =>
              /\ exit_code = 0
              /\ Documents = <<[error |-> <<"Unknown function: ", argv[2]>>]>>
              /\ provider_calls = <<>>

\* C3: with the provider unavailable, each of the four provider-backed
\* operations, called with any parameter mapping, prints the module-unavailable
\* error naming the operation and never invokes the provider.
C3_UnavailableError ==
    MainExited /\ MappingInvocation /\ ~YOKATLAS_AVAILABLE
           /\ argv[2] \in DetailOperations \cup SearchOperations =>
        /\ Documents = <<get_module_unavailable_error(argv[2])>>
        /\ provider_calls = <<>>

\* C4: health_check exits 0 and reports availability truthfully: its
\* yokatlas_available field is the availability flag and its status is
\* "error" exactly when the provider is absent.
C4_HealthCheckTruthful ==
    MainExited /\ WellFormedInvocation /\ argv[2] = "health_check" =>
        /\ exit_code = 0
        /\ Len(Documents) = 1
        /\ Documents[1].yokatlas_available = YOKATLAS_AVAILABLE
        /\ Documents[1].status = "error" <=> ~YOKATLAS_AVAILABLE

\* the tier whose import block completed
BoundTier ==
    IF import_raised # <<>> /\ import_raised[Len(import_raised)] = "none"
    THEN attempted[Len(attempted)]
    ELSE "NONE"

\* the Capability State the process records: the two module globals
RecordedState ==
    [modern |-> NEW_SMART_API, available |-> YOKATLAS_AVAILABLE]

\* the generations the recorded state stands for
Designated == {t \in TierSet \cup {"NONE"} : Recording(t) = RecordedState}

C5_DetectionState ==
    \* the tiers are attempted in the order MODERN, LEGACY_OBJECT, LEGACY_MODULE
    /\ Len(attempted) <= 3
    /\ Len(import_raised) = Len(attempted)
    /\ \A i \in 1..Len(attempted) : attempted[i] = Tiers[i]
    \* detection stops at the first tier that binds
    /\ \A i \in 1..Len(attempted) :
          import_raised[i] = "none" <=> attempted[i] \in importable
    /\ \A i \in 1..(Len(attempted) - 1) : import_raised[i] = "ImportError"
    /\ DetectionFinished =>
          \* the first importable tier is the one that bound
          /\ BoundTier = "NONE" <=> importable = {}
          /\ BoundTier = "NONE" => Len(attempted) = 3
          \* the recorded state designates exactly one generation
          /\ Designated = {BoundTier}
          /\ YOKATLAS_AVAILABLE <=> BoundTier # "NONE"
    /\ NEW_SMART_API => YOKATLAS_AVAILABLE

\* C5: detection attempts MODERN, LEGACY_OBJECT, LEGACY_MODULE in that order
\* and stops at the first tier that binds; the recorded state designates
\* exactly one of MODERN, LEGACY_OBJECT, LEGACY_MODULE or NONE, available
\* exactly when a tier bound and modern only when available; no later step
\* changes the recorded state.
C5_Detection ==
    /\ []C5_DetectionState
    /\ [][DetectionFinished =>
            UNCHANGED <<NEW_SMART_API, YOKATLAS_AVAILABLE>>]_vars

\* C6: a detail lookup whose parameters lack yop_kodu or year fails before the
\* provider is invoked and prints a structured error that names the operation
\* and echoes the identifiers that were supplied.
C6_RequiredFieldError ==
    MainExited /\ MappingInvocation /\ argv[2] \in DetailOperations
               /\ SubscriptFault(params) # <<>> =>
        /\ provider_calls = <<>>
        /\ Len(Documents) = 1
        /\ "error" \in DOMAIN Documents[1]
        /\ ReferencesOperation(Documents[1], argv[2])
        /\ "yop_kodu" \in DOMAIN params.map =>
              /\ "program_id" \in DOMAIN Documents[1]
              /\ Documents[1].program_id = params.map["yop_kodu"]
        /\ "year" \in DOMAIN params.map =>
              /\ "year" \in DOMAIN Documents[1]
              /\ Documents[1].year = params.map["year"]

\* C7: with the provider available, a fault raised while the fetch object is
\* built or while fetch_all_details is awaited does not leave the detail
\* operation: the one document printed is {error, program_id, year} with the
\* supplied identifiers, and the process exits 0.
C7_ProviderFaultContained ==
    Exited /\ YOKATLAS_AVAILABLE /\ function_name \in DetailOperations
           /\ Raises(provider_outcome) =>
        /\ exc = <<>>
        /\ exit_code = 0
        /\ exit_site = "returned"
        /\ Documents = <<[error |-> ProviderFaultMessage,
                       program_id |-> params.map["yop_kodu"],
                       year |-> params.map["year"]]>>

\* C8: in every envelope total_found is at least the length of programs, with
\* equality when the caller gave no length, and under a legacy generation it
\* is the provider's count before truncation.
C8_TotalFoundOriginal ==
    Exited /\ Len(Documents) = 1 /\ IsEnvelope(Documents[1]) =>
        /\ Documents[1].total_found >= Len(Documents[1].programs.rows)
        /\ "length" \notin DOMAIN params.map =>
              Documents[1].total_found = Len(Documents[1].programs.rows)
        /\ ~NEW_SMART_API =>
              Documents[1].total_found = Len(provider_outcome.rows)

\* the keys of a legacy parameter map the translation has renamed: it reads
\* them under the caller's names universite, program, sehir and ucret
RenamedKeys == {"uni_adi", "program_adi", "sehir_adi", "ucret_burs"}

\* the translation of the search operation that ran
LegacyParams(map) ==
    IF function_name = "search_bachelor_degree_programs"
    THEN BachelorLegacyParams(map)
    ELSE AssociateLegacyParams(map)

\* C9 as first stated: the parameter map handed to a legacy search wizard
\* holds no empty string, and translating the pruned map again yields the
\* same map.
C9_LegacyParamsOriginal ==
    \A i \in 1..Len(wizard_args) :
        /\ \A k \in DOMAIN wizard_args[i] : wizard_args[i][k] # JStr("")
        /\ LegacyParams(wizard_args[i]) = wizard_args[i]

\* C9: a search wizard is handed a map only under a legacy generation.  The
\* map is the translation of the caller's mapping and holds no empty string:
\* the bachelor search keeps the truthy values, the associate search the
\* truthy values and the numbers (0 included).  Filtering the handed map again
\* leaves it unchanged.  Translating it again as if it were a caller's mapping
\* yields the same map exactly when it holds none of the renamed keys
\* uni_adi, program_adi, sehir_adi, ucret_burs and, for the bachelor search,
\* holds puan_turu.
C9_LegacyParamsPruned ==
    \A i \in 1..Len(wizard_args) :
        LET w == wizard_args[i]
        IN  /\ YOKATLAS_AVAILABLE /\ ~NEW_SMART_API
            /\ function_name \in SearchOperations
            /\ w = LegacyParams(params.map)
            /\ \A k \in DOMAIN w : w[k] # JStr("")
            /\ function_name = "search_bachelor_degree_programs" =>
                  /\ \A k \in DOMAIN w : Truthy(w[k])
                  /\ PruneFalsy(w) = w
                  /\ BachelorLegacyParams(w) = w <=>
                        /\ DOMAIN w \cap RenamedKeys = {}
                        /\ "puan_turu" \in DOMAIN w
            /\ function_name = "search_associate_degree_programs" =>
                  /\ \A k \in DOMAIN w : Truthy(w[k]) \/ IsNumber(w[k])
                  /\ PruneKeepNumbers(w) = w
                  /\ AssociateLegacyParams(w) = w <=>
                        DOMAIN w \cap RenamedKeys = {}

C9_Witness ==
    /\ Len(wizard_args) = 1
    /\ function_name = "search_bachelor_degree_programs"
    /\ DOMAIN params.map = {"universite", "program"}
    /\ params.map["universite"] = JStr("a")
    /\ params.map["program"] = JStr("")
    /\ DOMAIN wizard_args[1] = {"uni_adi", "puan_turu", "page"}
    /\ BachelorLegacyParams(wizard_args[1]) # wizard_args[1]

\* C10: the rows in programs never outnumber the caller's numeric
\* max_results, 100 when absent (200 at most with a target ranking).
C10_MaxResults ==
    Exited /\ Len(Documents) = 1 /\ IsEnvelope(Documents[1])
           /\ IsList(Documents[1].programs) =>
        LET max_results == Get(params.map, "max_results", JInt(100))
        IN  max_results.t = "int" /\ max_results.n >= 0 =>
                Len(Documents[1].programs.rows) <= max_results.n

====
